---- MODULE Spec2Model ----
(***************************************************************************)
(* The four analyzers of code_assistant/agent_tools.py:                    *)
(*   analyze_code_structure, check_security_issues,                        *)
(*   check_performance_issues, check_documentation.                        *)
(* Each is a function of one string.  Text is a sequence of one-character  *)
(* strings, so that split, strip, lower, startswith and `in` are computed  *)
(* character by character.  The syntax tree that ast.parse returns is a    *)
(* sequence of nodes in source (pre-)order, each with its depth.           *)
(***************************************************************************)
EXTENDS Integers, Sequences, FiniteSets, TLC

VARIABLES
    code,     \* the `code` argument of the call
    parsed,   \* what ast.parse(code) gives for this code: a tree or an exception
    tool,     \* which analyzer has been called ("none" before the call)
    result,   \* the dict the call returned
    exc,      \* the exception raised inside the call's try block ("none" if none)
    trace     \* the call's loop-local state: in_loop after each line, or the
              \* findings gathered so far when the exception was raised

vars == <<code, parsed, tool, result, exc, trace>>

\* ------------------------------------------------------------------ bounds

\* Lines per input of the two line scanners.
MaxLines == 3

\* Nodes per syntax tree (the Module root not counted).
MaxNodes == 2

\* ------------------------------------------------------------ str methods

NL == "\n"

WhiteSpace == {" ", "\t", NL, "\r"}

\* The lower-case letter of each upper-case letter.
LowerCase ==
    [A |-> "a", B |-> "b", C |-> "c", D |-> "d", E |-> "e", F |-> "f", G |-> "g",
     H |-> "h", I |-> "i", J |-> "j", K |-> "k", L |-> "l", M |-> "m", N |-> "n",
     O |-> "o", P |-> "p", Q |-> "q", R |-> "r", S |-> "s", T |-> "t", U |-> "u",
     V |-> "v", W |-> "w", X |-> "x", Y |-> "y", Z |-> "z"]

\* str.lower() on one character.
LowerChar(c) == IF c \in DOMAIN LowerCase THEN LowerCase[c] ELSE c

\* str.lower()
Lower(s) == [k \in 1..Len(s) |-> LowerChar(s[k])]

\* str.strip()
Strip(s) ==
    IF \A k \in 1..Len(s) : s[k] \in WhiteSpace THEN <<>>
    ELSE SubSeq(s,
                CHOOSE a \in 1..Len(s) :
                    s[a] \notin WhiteSpace /\ \A b \in 1..(a - 1) : s[b] \in WhiteSpace,
                CHOOSE a \in 1..Len(s) :
                    s[a] \notin WhiteSpace /\ \A b \in (a + 1)..Len(s) : s[b] \in WhiteSpace)

\* `p in s` for strings
Contains(p, s) ==
    \E k \in 0..(Len(s) - Len(p)) : \A j \in 1..Len(p) : s[k + j] = p[j]

\* s.startswith(p)
StartsWith(s, p) == Len(s) >= Len(p) /\ \A j \in 1..Len(p) : s[j] = p[j]

\* s.split('\n'): the pieces between newlines; "" splits to [""].
Split(s) ==
    LET nls == {k \in 1..Len(s) : s[k] = NL}
        \* the k-th newline, with position 0 before and Len(s) + 1 after them
        cut[k \in 0..(Cardinality(nls) + 1)] ==
            IF k = 0 THEN 0
            ELSE IF k > Cardinality(nls) THEN Len(s) + 1
            ELSE CHOOSE a \in nls : Cardinality({b \in nls : b < a}) = k - 1
    IN  [k \in 1..(Cardinality(nls) + 1) |-> SubSeq(s, cut[k - 1] + 1, cut[k] - 1)]

\* '\n'.join(lines)
RECURSIVE Join(_)
Join(ls) ==
    IF Len(ls) = 0 THEN <<>>
    ELSE IF Len(ls) = 1 THEN ls[1]
    ELSE ls[1] \o <<NL>> \o Join(Tail(ls))

\* ------------------------------------------------- check_security_issues

eval_ == <<"e","v","a","l","(">>
exec_ == <<"e","x","e","c","(">>
pickle_loads == <<"p","i","c","k","l","e",".","l","o","a","d","s">>
dunder_import == <<"_","_","i","m","p","o","r","t","_","_">>
os_system == <<"o","s",".","s","y","s","t","e","m">>
shell_True == <<"s","h","e","l","l","=","T","r","u","e">>
sql == <<"s","q","l">>
password == <<"p","a","s","s","w","o","r","d">>
api_key == <<"a","p","i","_","k","e","y">>
SECRET == <<"S","E","C","R","E","T">>

dangerous_patterns ==
    << [pattern |-> eval_,
        message |-> "Dangerous use of eval() - can execute arbitrary code"],
       [pattern |-> exec_,
        message |-> "Dangerous use of exec() - can execute arbitrary code"],
       [pattern |-> pickle_loads,
        message |-> "Unsafe deserialization with pickle - can execute code"],
       [pattern |-> dunder_import,
        message |-> "Dynamic imports can be security risk"],
       [pattern |-> os_system,
        message |-> "Direct system calls - prefer subprocess with shell=False"],
       [pattern |-> shell_True,
        message |-> "Shell injection risk - avoid shell=True in subprocess"],
       [pattern |-> sql,
        message |-> "Potential SQL injection - use parameterized queries"],
       [pattern |-> password,
        message |-> "Hardcoded password detected - use environment variables"],
       [pattern |-> api_key,
        message |-> "Hardcoded API key detected - use environment variables"],
       [pattern |-> SECRET,
        message |-> "Hardcoded secret detected - use environment variables"] >>

SeverityAllMedium(pattern) == "MEDIUM"

\* "HIGH" if pattern in ['eval(', 'exec(', 'pickle.loads'] else "MEDIUM"
SecuritySeverity(pattern) ==
    IF pattern \in {eval_, exec_, pickle_loads} THEN "HIGH" ELSE "MEDIUM"

\* The inner loop over dangerous_patterns.items() for line number i.
SecurityLineFindings(i, line) ==
    LET line_lower == Lower(line)
        F[k \in 0..Len(dangerous_patterns)] ==
            IF k = 0 THEN <<>>
            ELSE LET p == dangerous_patterns[k]
                 IN  IF Contains(p.pattern, line_lower)
                     THEN Append(F[k - 1],
                                 [line |-> i,
                                  pattern |-> p.pattern,
                                  message |-> p.message,
                                  severity |-> SecuritySeverity(p.pattern),
                                  code_snippet |-> Strip(line)])
                     ELSE F[k - 1]
    IN  F[Len(dangerous_patterns)]

\* The body of check_security_issues: its returned dict.
check_security_issues(c) ==
    LET lines == Split(c)
        G[i \in 0..Len(lines)] ==
            IF i = 0 THEN <<>>
            ELSE G[i - 1] \o SecurityLineFindings(i, lines[i])
        security_issues == G[Len(lines)]
    IN  [status |-> "success",
         issues_found |-> Len(security_issues),
         security_issues |-> security_issues,
         safe |-> (Len(security_issues) = 0)]

\* ---------------------------------------------- check_performance_issues

range_len == <<"f","o","r"," ","i"," ","i","n"," ","r","a","n","g","e","(","l","e","n","(">>
append_ == <<".","a","p","p","e","n","d","(">>
global_ == <<"g","l","o","b","a","l"," ">>
plus_str == <<"+"," ","s","t","r","(">>
try_ == <<"t","r","y",":">>
for_ == <<"f","o","r"," ">>
while_ == <<"w","h","i","l","e"," ">>

AppendMessage == "Consider list comprehension if building list in loop"

patterns ==
    << [pattern |-> range_len,
        message |-> "Use enumerate() instead of range(len())"],
       [pattern |-> append_,
        message |-> AppendMessage],
       [pattern |-> global_,
        message |-> "Global variables can hurt performance and readability"],
       [pattern |-> plus_str,
        message |-> "String concatenation in loop - use join() or f-strings"],
       [pattern |-> try_,
        message |-> "Empty except blocks hide errors (if found)"] >>

\* The flag update that tests the untrimmed line for leading indentation.
UpdateInLoopByIndent(in_loop, line) ==
    LET stripped == Strip(line)
    IN  IF StartsWith(stripped, for_) \/ StartsWith(stripped, while_) THEN TRUE
        ELSE IF stripped # <<>> /\ ~StartsWith(line, <<" ">>) /\ in_loop THEN FALSE
        ELSE in_loop

\* "Track if we're in a loop": in_loop after the update for `line`.
UpdateInLoop(in_loop, line) ==
    LET stripped == Strip(line)
    IN  IF StartsWith(stripped, for_) \/ StartsWith(stripped, while_) THEN TRUE
        ELSE IF stripped # <<>> /\ ~StartsWith(stripped, <<" ">>) /\ in_loop THEN FALSE
        ELSE in_loop

\* in_loop after each line's update (element k: after line k).
InLoopTrace(lines) ==
    LET T[k \in 0..Len(lines)] ==
            IF k = 0 THEN <<>>
            ELSE LET before == T[k - 1]
                 IN  Append(before,
                            UpdateInLoop(IF k = 1 THEN FALSE ELSE before[k - 1],
                                         lines[k]))
    IN  T[Len(lines)]

AppendAlwaysFires(pattern, in_loop) ==
    IF pattern = append_ THEN "LOW" ELSE "MEDIUM"

\* The if/elif under `if pattern in stripped`: the severity of the finding
\* that is appended, or "none" when neither branch is taken.
PerformanceBranch(pattern, in_loop) ==
    IF pattern = append_ /\ in_loop THEN "LOW"
    ELSE IF pattern # append_ THEN "MEDIUM"
    ELSE "none"

\* The inner loop over patterns.items() for line number i.
PerformanceLineFindings(i, line, in_loop) ==
    LET stripped == Strip(line)
        F[k \in 0..Len(patterns)] ==
            IF k = 0 THEN <<>>
            ELSE LET p == patterns[k]
                     sev == PerformanceBranch(p.pattern, in_loop)
                 IN  IF Contains(p.pattern, stripped) /\ sev # "none"
                     THEN Append(F[k - 1],
                                 [line |-> i,
                                  message |-> p.message,
                                  severity |-> sev,
                                  code_snippet |-> stripped])
                     ELSE F[k - 1]
    IN  F[Len(patterns)]

\* The body of check_performance_issues: its returned dict.
check_performance_issues(c) ==
    LET lines == Split(c)
        flags == InLoopTrace(lines)
        G[i \in 0..Len(lines)] ==
            IF i = 0 THEN <<>>
            ELSE G[i - 1] \o PerformanceLineFindings(i, lines[i], flags[i])
        performance_issues == G[Len(lines)]
    IN  [status |-> "success",
         issues_found |-> Len(performance_issues),
         performance_issues |-> performance_issues,
         optimized |-> (Len(performance_issues) = 0)]

\* ------------------------------------------------------------------ inputs

SecurityLines ==
    { <<"x"," ","="," ","e","v","a","l","(","y",")">>,
      <<"X"," ","="," ","E","V","A","L","(","Y",")">>,
      <<"E","v","a","l","(","s","q","l",")">>,
      <<"e","x","e","c","(","c",")">>,
      <<"p","i","c","k","l","e",".","l","o","a","d","s","(","b",")">>,
      <<"m"," ","="," ","_","_","i","m","p","o","r","t","_","_","(","n",")">>,
      <<"o","s",".","s","y","s","t","e","m","(","c",")">>,
      <<"r","u","n","(","c",","," ","s","h","e","l","l","=","T","r","u","e",")">>,
      <<"q"," ","="," ","s","q","l">>,
      <<"p","a","s","s","w","o","r","d"," ","="," ","\"","a","d","m","i","n","1","2","3","\"">>,
      <<"a","p","i","_","k","e","y"," ","="," ","k">>,
      <<"S","E","C","R","E","T"," ","="," ","s">>,
      <<"s","e","c","r","e","t"," ","="," ","s">>,
      <<" "," "," "," ","x"," ","="," ","1">>,
      <<>> }

PerformanceLines ==
    { <<"f","o","r"," ","i"," ","i","n"," ","r","a","n","g","e","(","l","e","n","(","x",")",")",":">>,
      <<"f","o","r"," ","x"," ","i","n"," ","y",":">>,
      <<" "," "," "," ","w","h","i","l","e"," ","x",":">>,
      <<"f","o","r"," ","x"," ","i","n"," ","y",":"," ","r",".","a","p","p","e","n","d","(","x",")">>,
      <<"f","o","r"," ","i"," ","i","n"," ","r","a","n","g","e","(","l","e","n","(","x",")",")",":"," ","r",".","a","p","p","e","n","d","(","i",")">>,
      <<" "," "," "," ","r",".","a","p","p","e","n","d","(","x",")">>,
      <<"r",".","a","p","p","e","n","d","(","x",")">>,
      <<"g","l","o","b","a","l"," ","g">>,
      <<"t","r","y",":">>,
      <<"r",".","a","p","p","e","n","d","(","s"," ","+"," ","s","t","r","(","x",")",")">>,
      <<" "," "," "," ","x"," ","="," ","1">>,
      <<" "," "," "," ">>,
      <<>> }

\* The non-empty sequences over S of at most n elements.
SeqsUpTo(S, n) == UNION {[1..k -> S] : k \in 1..n}

ScanInputs ==
    {Join(ls) : ls \in SeqsUpTo(SecurityLines, MaxLines)
                        \cup SeqsUpTo(PerformanceLines, MaxLines)}


\* ------------------------------------------------------- the syntax tree
\* A tree is the sequence of its nodes in source order.  A node has a depth
\* (1: a statement of the module body); its parent is the nearest earlier
\* node one level up, or the Module root, node 0.  Nodes that no analyzer
\* tells apart (expressions, arguments, `pass`) are left out.

\* Shortest docstring check_documentation accepts: len(docstring) < 20
MinDocLen == 20

\* Most parameters analyze_code_structure accepts: func_info["args"] > 5
MaxParams == 5

Compound == {"FunctionDef", "ClassDef", "For"}

Kind(t, i) == IF i = 0 THEN "Module" ELSE t[i].kind

Depth(t, i) == IF i = 0 THEN 0 ELSE t[i].depth

\* The elements of a set of numbers, ascending.
RECURSIVE Ascending(_)
Ascending(S) ==
    IF S = {} THEN <<>>
    ELSE LET a == CHOOSE x \in S : \A y \in S : x <= y
         IN  <<a>> \o Ascending(S \ {a})

\* ast.iter_child_nodes(node)
Children(t, i) ==
    Ascending({j \in (i + 1)..Len(t) :
                 /\ Depth(t, j) = Depth(t, i) + 1
                 /\ \A m \in (i + 1)..j : Depth(t, m) > Depth(t, i)})

\* ast.walk: pop the left of the queue, extend the queue by the node's
\* children, yield the node.
RECURSIVE WalkFrom(_, _)
WalkFrom(t, todo) ==
    IF todo = <<>> THEN <<>>
    ELSE <<Head(todo)>> \o WalkFrom(t, Tail(todo) \o Children(t, Head(todo)))

\* A walk that yields the start node and its children only.
WalkTopLevel(t, i) == <<i>> \o Children(t, i)

\* ast.walk(node)
Walk(t, i) == WalkFrom(t, <<i>>)

\* str.lstrip()
LStrip(s) ==
    IF \A k \in 1..Len(s) : s[k] \in WhiteSpace THEN <<>>
    ELSE SubSeq(s,
                CHOOSE a \in 1..Len(s) :
                    s[a] \notin WhiteSpace /\ \A b \in 1..(a - 1) : s[b] \in WhiteSpace,
                Len(s))

\* ast.get_docstring(node): None unless the body starts with a string
\* literal; else that string cleaned by inspect.cleandoc, which for a
\* one-line string strips its leading blanks.
get_docstring(n) ==
    IF n.kind \in {"FunctionDef", "ClassDef"} /\ n.has_doc
    THEN [is_none |-> FALSE, text |-> LStrip(n.doc)]
    ELSE [is_none |-> TRUE, text |-> <<>>]

\* ------------------------------------------------ analyze_code_structure

\* The FunctionDef branch of the loop body.
StructureFunction(n, analysis) ==
    LET func_info == [name |-> n.name,
                      args |-> n.nargs,
                      line_number |-> n.lineno,
                      has_docstring |-> ~get_docstring(n).is_none]
        missing == IF ~func_info.has_docstring
                   THEN <<[text |-> "Function missing docstring",
                           name |-> n.name, line |-> n.lineno]>>
                   ELSE <<>>
        complex == IF func_info.args > MaxParams
                   THEN <<[text |-> "Function has parameters (>5 suggests complexity)",
                           name |-> n.name, args |-> func_info.args]>>
                   ELSE <<>>
    IN  [analysis EXCEPT !.functions = Append(@, func_info),
                         !.issues = @ \o missing \o complex]

\* The ClassDef branch of the loop body.
StructureClass(t, i, analysis) ==
    LET n == t[i]
        kids == Children(t, i)
        class_info == [name |-> n.name,
                       line_number |-> n.lineno,
                       methods |-> Cardinality({k \in 1..Len(kids) :
                                                  Kind(t, kids[k]) = "FunctionDef"}),
                       has_docstring |-> ~get_docstring(n).is_none]
        missing == IF ~class_info.has_docstring
                   THEN <<[text |-> "Class missing docstring",
                           name |-> n.name, line |-> n.lineno]>>
                   ELSE <<>>
    IN  [analysis EXCEPT !.classes = Append(@, class_info),
                         !.issues = @ \o missing]

\* The body of `for node in ast.walk(tree)` for node i.
StructureVisit(t, i, analysis) ==
    CASE Kind(t, i) = "FunctionDef" -> StructureFunction(t[i], analysis)
      [] Kind(t, i) = "ClassDef" -> StructureClass(t, i, analysis)
      [] Kind(t, i) = "Import" -> [analysis EXCEPT !.imports = @ \o t[i].names]
      [] Kind(t, i) = "ImportFrom" -> [analysis EXCEPT !.imports = Append(@, t[i].module)]
      [] OTHER -> analysis

\* `analysis` after the first k nodes of the walk w.
RECURSIVE StructureLoop(_, _, _, _)
StructureLoop(c, t, w, k) ==
    IF k = 0
    THEN [status |-> "success",
          functions |-> <<>>,
          classes |-> <<>>,
          imports |-> <<>>,
          lines_of_code |-> Len(Split(c)),
          issues |-> <<>>]
    ELSE StructureVisit(t, w[k], StructureLoop(c, t, w, k - 1))

StructureHandlerKeepsIssues(e, partial) ==
    [status |-> "error",
     error_message |-> "Error analyzing code: <str(e)>",
     issues |-> partial]

\* except SyntaxError / except Exception: the dict returned for exception e.
\* Every exception the parse or the walk can raise is an Exception.
StructureHandler(e, partial) ==
    IF e = "SyntaxError"
    THEN [status |-> "error", error_message |-> "Syntax error in code: <str(e)>"]
    ELSE [status |-> "error", error_message |-> "Error analyzing code: <str(e)>"]

\* The body of analyze_code_structure, where the walk raises MemoryError at
\* its failAt-th node (0: nowhere): the exception raised, the issues
\* gathered by then, and the returned dict.
analyze_code_structure(c, p, failAt) ==
    IF ~p.ok
    THEN [exc |-> p.exc, partial |-> <<>>, result |-> StructureHandler(p.exc, <<>>)]
    ELSE LET w == Walk(p.nodes, 0)
         IN  IF failAt > 0
             THEN LET partial == StructureLoop(c, p.nodes, w, failAt - 1).issues
                  IN  [exc |-> "MemoryError", partial |-> partial,
                       result |-> StructureHandler("MemoryError", partial)]
             ELSE [exc |-> "none", partial |-> <<>>,
                   result |-> StructureLoop(c, p.nodes, w, Len(w))]

\* --------------------------------------------------- check_documentation

Args_ == <<"A","r","g","s",":">>
Parameters_ == <<"P","a","r","a","m","e","t","e","r","s",":">>
Returns_ == <<"R","e","t","u","r","n","s",":">>
Return_ == <<"R","e","t","u","r","n",":">>

DocIssue(n, issue, severity) ==
    [line |-> n.lineno,
     element |-> n.name,
     type |-> IF n.kind = "FunctionDef" THEN "Function" ELSE "Class",
     issue |-> issue,
     severity |-> severity]

\* any(isinstance(n, ast.Return) for n in ast.walk(node) if n != node)
HasReturn(t, i) ==
    LET w == Walk(t, i)
    IN  \E k \in 2..Len(w) : Kind(t, w[k]) = "Return"

\* The `elif isinstance(node, ast.FunctionDef)` branch: the parameter check
\* and the return check on an adequate docstring.
ParamAndReturnChecks(t, i, docstring) ==
    LET has_params == t[i].nargs > 0
        mentions_params == Contains(Args_, docstring) \/ Contains(Parameters_, docstring)
        has_return == HasReturn(t, i)
        mentions_return == Contains(Returns_, docstring) \/ Contains(Return_, docstring)
    IN  (IF has_params /\ ~mentions_params
         THEN <<DocIssue(t[i], "Docstring doesn't document parameters", "MEDIUM")>>
         ELSE <<>>)
        \o
        (IF has_return /\ ~mentions_return
         THEN <<DocIssue(t[i], "Docstring doesn't document return value", "LOW")>>
         ELSE <<>>)

DocVisitNoElif(t, i) ==
    IF Kind(t, i) \in {"FunctionDef", "ClassDef"}
    THEN LET docstring == get_docstring(t[i])
         IN  (IF docstring.is_none \/ docstring.text = <<>>
              THEN <<DocIssue(t[i], "Missing docstring", "HIGH")>>
              ELSE IF Len(docstring.text) < MinDocLen
              THEN <<DocIssue(t[i], "Docstring too brief (< 20 chars)", "MEDIUM")>>
              ELSE <<>>)
             \o
             (IF Kind(t, i) = "FunctionDef"
              THEN ParamAndReturnChecks(t, i, docstring.text)
              ELSE <<>>)
    ELSE <<>>

\* The body of `for node in ast.walk(tree)` for node i: the issues appended.
\* `not docstring` holds of None and of the empty string.
DocVisit(t, i) ==
    IF Kind(t, i) \in {"FunctionDef", "ClassDef"}
    THEN LET docstring == get_docstring(t[i])
         IN  IF docstring.is_none \/ docstring.text = <<>>
             THEN <<DocIssue(t[i], "Missing docstring", "HIGH")>>
             ELSE IF Len(docstring.text) < MinDocLen
             THEN <<DocIssue(t[i], "Docstring too brief (< 20 chars)", "MEDIUM")>>
             ELSE IF Kind(t, i) = "FunctionDef"
             THEN ParamAndReturnChecks(t, i, docstring.text)
             ELSE <<>>
    ELSE <<>>

\* doc_issues after the first k nodes of the walk w.
RECURSIVE DocLoop(_, _, _)
DocLoop(t, w, k) ==
    IF k = 0 THEN <<>> ELSE DocLoop(t, w, k - 1) \o DocVisit(t, w[k])

\* except Exception: the dict returned for exception e.
DocHandler(e, partial) ==
    [status |-> "error", error_message |-> "<str(e)>"]

DocSuccessCountsNodes(t, doc_issues) ==
    [status |-> "success",
     issues_found |-> Len(t),
     documentation_issues |-> doc_issues,
     well_documented |-> (Len(doc_issues) = 0)]

\* The dict returned when the walk ends.
DocSuccess(t, doc_issues) ==
    [status |-> "success",
     issues_found |-> Len(doc_issues),
     documentation_issues |-> doc_issues,
     well_documented |-> (Len(doc_issues) = 0)]

\* The body of check_documentation, where the walk raises MemoryError at its
\* failAt-th node (0: nowhere).
check_documentation(p, failAt) ==
    IF ~p.ok
    THEN [exc |-> p.exc, partial |-> <<>>, result |-> DocHandler(p.exc, <<>>)]
    ELSE LET w == Walk(p.nodes, 0)
         IN  IF failAt > 0
             THEN LET partial == DocLoop(p.nodes, w, failAt - 1)
                  IN  [exc |-> "MemoryError", partial |-> partial,
                       result |-> DocHandler("MemoryError", partial)]
             ELSE [exc |-> "none", partial |-> <<>>,
                   result |-> DocSuccess(p.nodes, DocLoop(p.nodes, w, Len(w)))]

\* ------------------------------------------------------------ tree inputs

Filler(n) == [k \in 1..n |-> "x"]

NoDoc == [has_doc |-> FALSE, doc |-> <<>>]

Doc(s) == [has_doc |-> TRUE, doc |-> s]

Adequate == Filler(MinDocLen)

Brief == Filler(MinDocLen - 1)

FunctionDef(nargs, d) ==
    [kind |-> "FunctionDef", name |-> "f", nargs |-> nargs,
     has_doc |-> d.has_doc, doc |-> d.doc,
     value |-> FALSE, names |-> <<>>, module |-> ""]

ClassDef(d) ==
    [kind |-> "ClassDef", name |-> "C", nargs |-> 0,
     has_doc |-> d.has_doc, doc |-> d.doc,
     value |-> FALSE, names |-> <<>>, module |-> ""]

Statement(kind, value, names, module) ==
    [kind |-> kind, name |-> "", nargs |-> 0,
     has_doc |-> FALSE, doc |-> <<>>,
     value |-> value, names |-> names, module |-> module]

NodeVariants ==
    { FunctionDef(0, NoDoc),
      FunctionDef(MaxParams + 2, NoDoc),
      FunctionDef(MaxParams + 1, Doc(<<>>)),
      FunctionDef(MaxParams, Doc(Brief)),
      FunctionDef(0, Doc(<<" ", " ", " ">> \o Brief)),
      FunctionDef(0, Doc(Adequate)),
      FunctionDef(2, Doc(Adequate)),
      FunctionDef(2, Doc(Adequate \o <<" ">> \o Args_)),
      FunctionDef(MaxParams + 1, Doc(Adequate \o <<" ">> \o Parameters_)),
      FunctionDef(0, Doc(Adequate \o <<" ">> \o Returns_)),
      FunctionDef(0, Doc(Adequate \o <<" ">> \o Return_)),
      FunctionDef(2, Doc(Adequate \o <<" ">> \o Args_ \o <<" ">> \o Returns_)),
      ClassDef(NoDoc),
      ClassDef(Doc(<<>>)),
      ClassDef(Doc(Brief)),
      ClassDef(Doc(Adequate)),
      Statement("For", FALSE, <<>>, ""),
      Statement("Expr", FALSE, <<>>, ""),
      Statement("Return", TRUE, <<>>, ""),
      Statement("Return", FALSE, <<>>, ""),
      Statement("Import", FALSE, <<"os", "sys">>, ""),
      Statement("ImportFrom", FALSE, <<>>, "os"),
      Statement("ImportFrom", FALSE, <<>>, "None") }

\* The source text of a tree: one header line per node, indented four
\* blanks per level, then its docstring line, then `pass` for an empty body.

ParamNames == <<"a", "b", "c", "d", "e", "f", "g">>

RECURSIVE ParamList(_)
ParamList(n) ==
    IF n = 0 THEN <<>>
    ELSE IF n = 1 THEN <<ParamNames[1]>>
    ELSE ParamList(n - 1) \o <<",", ParamNames[n]>>

Indent(depth) == [k \in 1..(4 * (depth - 1)) |-> " "]

Header(n) ==
    CASE n.kind = "FunctionDef" ->
           <<"d","e","f"," ","f","(">> \o ParamList(n.nargs) \o <<")",":">>
      [] n.kind = "ClassDef" -> <<"c","l","a","s","s"," ","C",":">>
      [] n.kind = "For" -> <<"f","o","r"," ","x"," ","i","n"," ","y",":">>
      [] n.kind = "Expr" -> <<"r",".","a","p","p","e","n","d","(","x",")">>
      [] n.kind = "Return" ->
           IF n.value THEN <<"r","e","t","u","r","n"," ","x">>
           ELSE <<"r","e","t","u","r","n">>
      [] n.kind = "Import" ->
           <<"i","m","p","o","r","t"," ","o","s",","," ","s","y","s">>
      [] n.kind = "ImportFrom" ->
           IF n.module = "None"
           THEN <<"f","r","o","m"," ","."," ","i","m","p","o","r","t"," ","x">>
           ELSE <<"f","r","o","m"," ","o","s"," ","i","m","p","o","r","t"," ","p","a","t","h">>

NodeLines(t, i) ==
    LET n == t[i]
        quotes == <<"\"", "\"", "\"">>
    IN  <<Indent(n.depth) \o Header(n)>>
        \o (IF n.has_doc
            THEN <<Indent(n.depth + 1) \o quotes \o n.doc \o quotes>>
            ELSE <<>>)
        \o (IF n.kind \in Compound /\ ~n.has_doc /\ Children(t, i) = <<>>
            THEN <<Indent(n.depth + 1) \o <<"p","a","s","s">>>>
            ELSE <<>>)

RECURSIVE SourceLines(_, _)
SourceLines(t, k) ==
    IF k = 0 THEN <<>> ELSE SourceLines(t, k - 1) \o NodeLines(t, k)

Positioned(v, depth, lineno) ==
    [kind |-> v.kind, name |-> v.name, nargs |-> v.nargs,
     has_doc |-> v.has_doc, doc |-> v.doc,
     value |-> v.value, names |-> v.names, module |-> v.module,
     depth |-> depth, lineno |-> lineno]

\* The tree of node variants vs at depths ds, each node on its source line.
MakeTree(vs, ds) ==
    LET sk == [k \in 1..Len(vs) |-> Positioned(vs[k], ds[k], 0)]
    IN  [k \in 1..Len(vs) |->
            Positioned(vs[k], ds[k], Len(SourceLines(sk, k - 1)) + 1)]

DepthSeqs(n) ==
    {d \in [1..n -> 1..n] :
        n = 0 \/ (d[1] = 1 /\ \A k \in 2..n : d[k] <= d[k - 1] + 1)}

\* The nodes and depths of the trees of n nodes: a node one level deeper
\* than the node before it is the first statement of that node's body.
TreeShapes(n) ==
    {q \in [1..n -> NodeVariants] \X DepthSeqs(n) :
        \A k \in 2..n :
            q[2][k] = q[2][k - 1] + 1 => q[1][k - 1].kind \in Compound}

BadSources ==
    { <<"d","e","f"," ","f","(",":">>,
      <<" "," "," "," ","r",".","a","p","p","e","n","d","(","x",")">> }

\* What ast.parse gives for the source text of tree t: the tree.
Parsed(t) == [ok |-> TRUE, exc |-> "none", nodes |-> t]

\* The source text of tree t.
Source(t) == Join(SourceLines(t, Len(t))) \o <<NL>>

\* What ast.parse gives for text that is no program: SyntaxError.
Unparsable == [ok |-> FALSE, exc |-> "SyntaxError", nodes |-> <<>>]

NoTree == [ok |-> FALSE, exc |-> "unparsed", nodes |-> <<>>]

NoResult == [status |-> "not called"]

\* ----------------------------------------------------------------- actions

CheckSecurityIssues ==
    /\ tool = "none"
    /\ tool' = "check_security_issues"
    /\ result' = check_security_issues(code)
    /\ exc' = "none"
    /\ trace' = <<>>
    /\ UNCHANGED <<code, parsed>>

CheckPerformanceIssues ==
    /\ tool = "none"
    /\ tool' = "check_performance_issues"
    /\ result' = check_performance_issues(code)
    /\ exc' = "none"
    /\ trace' = InLoopTrace(Split(code))
    /\ UNCHANGED <<code, parsed>>

\* Where the walk may fail: at any node it reaches, or nowhere (0).
FailPoints(p) == IF p.ok THEN 0..Len(Walk(p.nodes, 0)) ELSE {0}

AnalyzeCodeStructure ==
    /\ tool = "none"
    /\ \E failAt \in FailPoints(parsed) :
          LET r == analyze_code_structure(code, parsed, failAt)
          IN  /\ result' = r.result
              /\ exc' = r.exc
              /\ trace' = r.partial
    /\ tool' = "analyze_code_structure"
    /\ UNCHANGED <<code, parsed>>

CheckDocumentation ==
    /\ tool = "none"
    /\ \E failAt \in FailPoints(parsed) :
          LET r == check_documentation(parsed, failAt)
          IN  /\ result' = r.result
              /\ exc' = r.exc
              /\ trace' = r.partial
    /\ tool' = "check_documentation"
    /\ UNCHANGED <<code, parsed>>

\* One call of one analyzer on a program text (or on text that is none).
Init ==
    /\ \/ \E n \in 0..MaxNodes : \E q \in TreeShapes(n) :
             LET t == MakeTree(q[1], q[2])
             IN  parsed = Parsed(t) /\ code = Source(t)
       \/ \E s \in BadSources : parsed = Unparsable /\ code = s
    /\ tool = "none"
    /\ result = NoResult
    /\ exc = "none"
    /\ trace = <<>>

Next ==
    \/ AnalyzeCodeStructure
    \/ CheckSecurityIssues
    \/ CheckPerformanceIssues
    \/ CheckDocumentation

Spec == Init /\ [][Next]_vars

\* One call of a line scanner on up to MaxLines lines of arbitrary text.
InitScan ==
    /\ code \in ScanInputs
    /\ parsed = NoTree
    /\ tool = "none"
    /\ result = NoResult
    /\ exc = "none"
    /\ trace = <<>>

NextScan == CheckSecurityIssues \/ CheckPerformanceIssues

SpecScan == InitScan /\ [][NextScan]_vars

\* ------------------------------------------------------------- properties

IsHeader(line) ==
    StartsWith(Strip(line), for_) \/ StartsWith(Strip(line), while_)

IsBlank(line) == Strip(line) = <<>>

LeadingBlanks(line) == Len(line) - Len(LStrip(line))

\* How many elements of the sequence fs satisfy P.
Count(fs, P(_)) == Cardinality({k \in 1..Len(fs) : P(fs[k])})

ScannerDone(name) == tool = name /\ result.status = "success"

\* C1: in check_performance_issues, an '.append(' line that comes right
\* after a line whose trimmed text starts with 'for ', indented as much as
\* the header or more, has a LOW finding for its line number.
C1_AppendAfterForIsLow ==
    LET Lines == Split(code) IN
    ScannerDone("check_performance_issues") =>
        \A k \in 1..(Len(Lines) - 1) :
            ( /\ StartsWith(Strip(Lines[k]), for_)
              /\ Contains(append_, Lines[k + 1])
              /\ LeadingBlanks(Lines[k + 1]) >= LeadingBlanks(Lines[k]) )
            => \E j \in 1..Len(result.performance_issues) :
                  /\ result.performance_issues[j].line = k + 1
                  /\ result.performance_issues[j].severity = "LOW"

\* C2: in check_security_issues, for every line and every entry of the
\* pattern table, the line has exactly one finding for that entry if it
\* contains the entry's text in any letter case, and none otherwise.
C2_EveryEntryMatchesInAnyCase ==
    LET Lines == Split(code) IN
    ScannerDone("check_security_issues") =>
        \A i \in 1..Len(Lines) : \A e \in 1..Len(dangerous_patterns) :
            LET p == dangerous_patterns[e].pattern
                hit(f) == f.line = i /\ f.pattern = p
            IN  Count(result.security_issues, hit)
                  = IF Contains(Lower(p), Lower(Lines[i])) THEN 1 ELSE 0

PasswordLine ==
    <<"p","a","s","s","w","o","r","d"," ","="," ","\"","a","d","m","i","n","1","2","3","\"">>

\* C3: in check_security_issues, a finding is HIGH exactly when its pattern
\* is eval(, exec( or pickle.loads, and MEDIUM otherwise; a line containing
\* eval( in any letter case has a HIGH finding; the line
\* password = "admin123" has exactly one finding, MEDIUM, pattern password.
C3_SeverityMapping ==
    LET Lines == Split(code) IN
    ScannerDone("check_security_issues") =>
        LET fs == result.security_issues
        IN  /\ \A j \in 1..Len(fs) :
                 /\ fs[j].severity \in {"HIGH", "MEDIUM"}
                 /\ fs[j].severity = "HIGH"
                      <=> fs[j].pattern \in {eval_, exec_, pickle_loads}
            /\ \A i \in 1..Len(Lines) :
                 /\ Contains(eval_, Lower(Lines[i])) =>
                      \E j \in 1..Len(fs) :
                          fs[j].line = i /\ fs[j].severity = "HIGH"
                 /\ Lines[i] = PasswordLine =>
                      /\ LET at(f) == f.line = i IN Count(fs, at) = 1
                      /\ \A j \in 1..Len(fs) :
                            fs[j].line = i =>
                                fs[j].severity = "MEDIUM" /\ fs[j].pattern = password

\* An input with eval( in capitals on one line and the password line on
\* another, scanned: a HIGH and a MEDIUM finding.
C3_Witness ==
    LET Lines == Split(code) IN
    /\ ScannerDone("check_security_issues")
    /\ \E i, j \in 1..Len(Lines) :
          /\ Contains(eval_, Lower(Lines[i])) /\ ~Contains(eval_, Lines[i])
          /\ Lines[j] = PasswordLine
          /\ \E a, b \in 1..Len(result.security_issues) :
                /\ result.security_issues[a].line = i
                /\ result.security_issues[a].severity = "HIGH"
                /\ result.security_issues[b].line = j
                /\ result.security_issues[b].severity = "MEDIUM"

\* The findings list of a successful result, by analyzer.
FindingsOf(name, r) ==
    CASE name = "check_security_issues" -> r.security_issues
      [] name = "check_performance_issues" -> r.performance_issues
      [] name = "check_documentation" -> r.documentation_issues
      [] name = "analyze_code_structure" -> r.issues

TreeTools == {"analyze_code_structure", "check_documentation"}

\* C5: in the two tree analyzers, a parse failure or any failure during the
\* walk gives a returned result with status error and an error message and
\* no findings list (what was gathered is dropped); nothing propagates, and
\* no result has both status error and findings.
C5_FailureGivesBareError ==
    tool \in TreeTools =>
        /\ result.status \in {"success", "error"}
        /\ (~parsed.ok \/ exc # "none") <=> result.status = "error"
        /\ result.status = "error" =>
              DOMAIN result = {"status", "error_message"}

\* The structure walk failed after issues had been gathered.
C5_Witness ==
    /\ tool = "analyze_code_structure"
    /\ exc = "MemoryError"
    /\ Len(trace) > 0
    /\ result.status = "error"

FunctionNodes == {i \in 1..Len(parsed.nodes) : parsed.nodes[i].kind = "FunctionDef"}

ClassNodes == {i \in 1..Len(parsed.nodes) : parsed.nodes[i].kind = "ClassDef"}

\* The documentation findings of node i (a node's line identifies it).
DocIssuesOf(i, issue) ==
    LET hit(f) == f.line = parsed.nodes[i].lineno /\ f.issue = issue
    IN  Count(result.documentation_issues, hit)

AllDocIssuesOf(i) ==
    LET hit(f) == f.line = parsed.nodes[i].lineno
    IN  Count(result.documentation_issues, hit)

MissingIssue == "Missing docstring"

BriefIssue == "Docstring too brief (< 20 chars)"

ParamIssue == "Docstring doesn't document parameters"

ReturnIssue == "Docstring doesn't document return value"

Audited == tool = "check_documentation" /\ result.status = "success"

MentionsParams(d) == Contains(Args_, d) \/ Contains(Parameters_, d)

MentionsReturn(d) == Contains(Returns_, d) \/ Contains(Return_, d)

\* C6: in check_documentation, a function or class with no docstring has
\* exactly one finding, HIGH Missing docstring; one with a docstring shorter
\* than 20 characters has exactly one finding, MEDIUM too brief; the
\* parameter and return findings appear only for a function whose docstring
\* has 20 characters or more.
C6_MissingAndBriefExclusive ==
    Audited =>
        \A i \in FunctionNodes \cup ClassNodes :
            LET d == get_docstring(parsed.nodes[i])
            IN  /\ d.is_none =>
                     AllDocIssuesOf(i) = 1 /\ DocIssuesOf(i, MissingIssue) = 1
                /\ (~d.is_none /\ Len(d.text) < MinDocLen) =>
                     AllDocIssuesOf(i) = 1 /\ DocIssuesOf(i, BriefIssue) = 1
                /\ (DocIssuesOf(i, ParamIssue) + DocIssuesOf(i, ReturnIssue) > 0) =>
                     i \in FunctionNodes /\ ~d.is_none /\ Len(d.text) >= MinDocLen

\* C6 as amended: a function or class with no docstring, or with an empty
\* one, has exactly one finding, HIGH Missing docstring; one with a
\* non-empty docstring shorter than 20 characters has exactly one finding,
\* MEDIUM too brief; the parameter and return findings appear only for a
\* function whose docstring has 20 characters or more, each at most once,
\* and the parameter finding appears there exactly when the function has
\* parameters and the docstring has neither Args: nor Parameters:, whatever
\* the return finding does.
C6_MissingOrEmptyAndBriefExclusive ==
    Audited =>
        \A i \in FunctionNodes \cup ClassNodes :
            LET d == get_docstring(parsed.nodes[i])
                adequate == ~d.is_none /\ Len(d.text) >= MinDocLen
            IN  /\ (d.is_none \/ d.text = <<>>) =>
                     AllDocIssuesOf(i) = 1 /\ DocIssuesOf(i, MissingIssue) = 1
                /\ (~d.is_none /\ d.text # <<>> /\ Len(d.text) < MinDocLen) =>
                     AllDocIssuesOf(i) = 1 /\ DocIssuesOf(i, BriefIssue) = 1
                /\ (DocIssuesOf(i, ParamIssue) + DocIssuesOf(i, ReturnIssue) > 0) =>
                     i \in FunctionNodes /\ adequate
                /\ adequate =>
                     /\ AllDocIssuesOf(i)
                          = DocIssuesOf(i, ParamIssue) + DocIssuesOf(i, ReturnIssue)
                     /\ DocIssuesOf(i, ParamIssue) <= 1
                     /\ DocIssuesOf(i, ReturnIssue) <= 1
                     /\ i \in FunctionNodes =>
                          (DocIssuesOf(i, ParamIssue) = 1
                             <=> (parsed.nodes[i].nargs > 0 /\ ~MentionsParams(d.text)))

\* An audit of an undocumented function holding a function whose adequate
\* docstring draws the parameter finding alone.
C6_Witness ==
    /\ Audited
    /\ \E i, j \in FunctionNodes :
          /\ get_docstring(parsed.nodes[i]).is_none
          /\ DocIssuesOf(i, MissingIssue) = 1
          /\ Len(get_docstring(parsed.nodes[j]).text) >= MinDocLen
          /\ DocIssuesOf(j, ParamIssue) = 1
          /\ DocIssuesOf(j, ReturnIssue) = 0

\* Some return statement below node i returns a value.
HasValueReturn(t, i) ==
    \E j \in (i + 1)..Len(t) :
        /\ \A m \in (i + 1)..j : Depth(t, m) > Depth(t, i)
        /\ t[j].kind = "Return"
        /\ t[j].value

\* C7: in check_documentation, a function whose docstring has 20 characters
\* or more has the LOW return-value finding exactly when its nested body
\* holds a return statement that returns a value and the docstring has
\* neither Returns: nor Return:; bare `return` statements alone give none.
C7_ReturnFindingIffValueReturned ==
    Audited =>
        \A i \in FunctionNodes :
            LET d == get_docstring(parsed.nodes[i])
            IN  (~d.is_none /\ Len(d.text) >= MinDocLen) =>
                    (DocIssuesOf(i, ReturnIssue) = 1
                       <=> (HasValueReturn(parsed.nodes, i) /\ ~MentionsReturn(d.text)))

\* The findings of line i that carry the message of pattern table entry e.
PerfIssuesOf(i, e) ==
    LET hit(f) == f.line = i /\ f.message = patterns[e].message
    IN  Count(result.performance_issues, hit)

RangeLenLine ==
    <<"f","o","r"," ","i"," ","i","n"," ","r","a","n","g","e","(","l","e","n","(","x",")",")",":">>

\* C8: in check_performance_issues, for every line and either value of the
\* loop flag, each matching pattern other than '.append(' gives one MEDIUM
\* finding; '.append(' gives a finding only when the flag is true at that
\* line, and it is LOW; an '.append(' line with no loop header at or before
\* it gives none; `for i in range(len(x)):` gives a MEDIUM finding.
C8_SeverityConditionPolicy ==
    LET Lines == Split(code) IN
    ScannerDone("check_performance_issues") =>
        \A i \in 1..Len(Lines) :
            /\ \A e \in 1..Len(patterns) :
                 LET matches == Contains(patterns[e].pattern, Strip(Lines[i]))
                     fires == IF patterns[e].pattern = append_
                              THEN matches /\ trace[i]
                              ELSE matches
                     sev == IF patterns[e].pattern = append_ THEN "LOW" ELSE "MEDIUM"
                 IN  /\ PerfIssuesOf(i, e) = IF fires THEN 1 ELSE 0
                     /\ \A j \in 1..Len(result.performance_issues) :
                           LET f == result.performance_issues[j]
                           IN  (f.line = i /\ f.message = patterns[e].message)
                                   => f.severity = sev
            /\ (\A k \in 1..i : ~IsHeader(Lines[k])) =>
                 \A j \in 1..Len(result.performance_issues) :
                     LET f == result.performance_issues[j]
                     IN  f.line = i => f.message # AppendMessage
            /\ Lines[i] = RangeLenLine =>
                 \E j \in 1..Len(result.performance_issues) :
                     LET f == result.performance_issues[j]
                     IN  f.line = i /\ f.severity = "MEDIUM"

\* A scan with a MEDIUM finding on a line where the flag is true, one on a
\* line where it is false, a LOW '.append(' finding, and an '.append(' line
\* that gives nothing.
C8_Witness ==
    LET Lines == Split(code) IN
    /\ ScannerDone("check_performance_issues")
    /\ \E a, b, c \in 1..Len(Lines) : \E ea, eb \in 1..Len(patterns) :
          /\ patterns[ea].pattern # append_ /\ patterns[eb].pattern # append_
          /\ trace[a] /\ PerfIssuesOf(a, ea) = 1
          /\ ~trace[b] /\ PerfIssuesOf(b, eb) = 1
          /\ Contains(append_, Lines[c]) /\ ~trace[c]
          /\ \A j \in 1..Len(result.performance_issues) :
                result.performance_issues[j].line # c
    /\ \E j \in 1..Len(result.performance_issues) :
          result.performance_issues[j].severity = "LOW"

StructureDone == tool = "analyze_code_structure" /\ result.status = "success"

ExampleSource ==
    <<"d","e","f"," ","f","(","a",",","b",",","c",",","d",",","e",",","f",",","g",")",":",NL,
      " "," "," "," ","p","a","s","s",NL>>

\* C9: in analyze_code_structure, every function declaration of the tree, at
\* any depth, is visited once and gives one record (name, parameter count,
\* line, has-docstring), a missing-docstring issue exactly when it has no
\* docstring and a parameters issue exactly when it has more than 5
\* parameters; `def f(a,b,c,d,e,f,g): pass` gives one record, f with 7
\* parameters, and two issues.
C9_EveryFunctionRecordedOnce ==
    StructureDone =>
        LET t == parsed.nodes
            w == Walk(t, 0)
        IN  /\ \A i \in 0..Len(t) : Cardinality({k \in 1..Len(w) : w[k] = i}) = 1
            /\ Len(result.functions) = Cardinality(FunctionNodes)
            /\ \A i \in FunctionNodes :
                 LET rec(f) == f = [name |-> t[i].name,
                                    args |-> t[i].nargs,
                                    line_number |-> t[i].lineno,
                                    has_docstring |-> t[i].has_doc]
                     at(f) == f.line_number = t[i].lineno
                     missing(f) == /\ f.text = "Function missing docstring"
                                   /\ f.line = t[i].lineno
                 IN  /\ Count(result.functions, at) = 1
                     /\ Count(result.functions, rec) = 1
                     /\ Count(result.issues, missing) = IF t[i].has_doc THEN 0 ELSE 1
            /\ \A n \in 0..(MaxParams + 2) :
                 LET complex(f) ==
                         /\ f.text = "Function has parameters (>5 suggests complexity)"
                         /\ f.args = n
                 IN  Count(result.issues, complex)
                       = IF n > MaxParams
                         THEN Cardinality({i \in FunctionNodes : t[i].nargs = n})
                         ELSE 0
            /\ code = ExampleSource =>
                 /\ result.functions = <<[name |-> "f", args |-> 7,
                                          line_number |-> 1, has_docstring |-> FALSE]>>
                 /\ Len(result.issues) = 2

\* A function of 7 parameters and no docstring, nested in another
\* declaration, recorded with its two issues.
C9_Witness ==
    /\ StructureDone
    /\ \E i \in FunctionNodes :
          /\ parsed.nodes[i].depth > 1
          /\ parsed.nodes[i].nargs > MaxParams
          /\ ~parsed.nodes[i].has_doc
          /\ \E k \in 1..Len(result.functions) :
                result.functions[k].line_number = parsed.nodes[i].lineno
          /\ \E a, b \in 1..Len(result.issues) :
                /\ result.issues[a].text = "Function missing docstring"
                /\ result.issues[a].line = parsed.nodes[i].lineno
                /\ result.issues[b].text = "Function has parameters (>5 suggests complexity)"

\* C10: in check_performance_issues, after the flag update for line k,
\* in_loop is true only if line k is a loop header or every line after the
\* most recent header up to line k is blank; a non-blank line that is no
\* header leaves the flag false whatever its indentation.
C10_InLoopOnlyThroughBlanks ==
    LET Lines == Split(code) IN
    tool = "check_performance_issues" =>
        /\ Len(trace) = Len(Lines)
        /\ \A k \in 1..Len(Lines) :
             /\ trace[k] =>
                  \/ IsHeader(Lines[k])
                  \/ \E h \in 1..(k - 1) :
                        /\ IsHeader(Lines[h])
                        /\ \A m \in (h + 1)..k : IsBlank(Lines[m])
             /\ (~IsBlank(Lines[k]) /\ ~IsHeader(Lines[k])) => ~trace[k]

\* A scan where the flag survives a blank line after a header and is then
\* cleared by an indented line.
C10_Witness ==
    LET Lines == Split(code) IN
    /\ tool = "check_performance_issues"
    /\ \E k \in 2..(Len(Lines) - 1) :
          /\ IsHeader(Lines[k - 1])
          /\ IsBlank(Lines[k]) /\ trace[k]
          /\ LeadingBlanks(Lines[k + 1]) > 0
          /\ ~IsBlank(Lines[k + 1]) /\ ~trace[k + 1]

====
